---------------------------- MODULE Spec2Model ----------------------------
(***************************************************************************)
(* A model of the issue workflow of sentinel-track-bot: the status         *)
(* transition table and the Issue domain methods (internal/domain), the    *)
(* issue service and the issue-assignee service (internal/service) and the *)
(* repositories they write through (internal/repository).                  *)
(*                                                                         *)
(* Specifications:                                                         *)
(*   SpecTable   the pure functions of the transition table                *)
(*   Spec        the issue service, one whole call per step, and the       *)
(*               methods of an in-memory Issue                             *)
(*   SpecConc    UpdateIssueStatus and UpdateIssuePriority calls that      *)
(*               overlap, split at their database read and write           *)
(*   SpecAssign  the issue-assignee service, one whole call per step       *)
(*   SpecLogs    the readers of an Issue's status log                      *)
(*   SpecChan    the channel service's RegisterChannel, one call per step  *)
(***************************************************************************)
EXTENDS Naturals, Integers, Sequences, FiniteSets, TLC

VARIABLES
    tq,          \* SpecTable: the query put to the transition table and its answer
    hq,          \* SpecLogs: an Issue's StatusLogs and what its readers returned
    customers,   \* SpecChan: the customers table, a customer kept as its name
    projects,    \* SpecChan: the projects table, rows <<customer, name>>
    channels,    \* SpecChan: the channels table
    lastR,       \* SpecChan: the last RegisterChannel call and the stores before it
    issues,      \* issues table: id -> row (exists = FALSE: no such row)
    statusLogs,  \* issue_status_logs table, oldest first
    users,       \* users table: the Discord IDs that have a user row
    nextIssue,   \* number of issue rows created so far (uuid.New() is fresh)
    clock,       \* time.Now(), advancing with every call
    applied,     \* history: per issue, the statuses its row took after creation
    last,        \* history: the last service call, its arguments, result and pre-state
    obj,         \* an in-memory domain.Issue the domain methods act on
    objLog,      \* the *IssueStatusLog the last obj.ChangeStatus returned
    procs,       \* SpecConc: the in-flight UpdateIssueStatus calls
    writes,      \* SpecConc history: successful issueRepo.Update calls so far
    aprocs,      \* SpecAssignConc: the in-flight AssignUserToIssue calls
    assignees,   \* issue_assignees table, in insertion (assigned_at) order
    nextAssignee,\* number of assignee rows created so far
    lastA,       \* history: the last assignee-service call
    prevA        \* history: the call before lastA, if a successful AssignUserToIssue

vars == <<tq, hq, customers, projects, channels, lastR, issues, statusLogs, users, nextIssue, clock, applied, last,
          obj, objLog, procs, writes, aprocs, assignees, nextAssignee, lastA,
          prevA>>

(***************************************************************************)
(* Bounds                                                                  *)
(***************************************************************************)
MaxClock == 4     \* calls per behaviour: clock runs 1..MaxClock
MaxIssues == 2    \* issue rows
MaxProcs == 2     \* overlapping UpdateIssueStatus calls

(***************************************************************************)
(* domain: Status, Priority (part_004 lines 71-93)                         *)
(***************************************************************************)
StatusOpen == "open"
StatusAssignedDev == "assigned_dev"
StatusInProgress == "in_progress"
StatusResolved == "resolved"
StatusAssignedQA == "assigned_qa"
StatusVerified == "verified"
StatusClosed == "closed"
StatusRejected == "rejected"
StatusReopened == "reopened"

Statuses == {StatusOpen, StatusAssignedDev, StatusInProgress, StatusResolved,
             StatusAssignedQA, StatusVerified, StatusClosed, StatusRejected,
             StatusReopened}

\* Status is a Go string type: a caller can pass any string.  The empty
\* string is the zero value; "draft" stands for a string outside the 9.
StatusInputs == Statuses \cup {"", "draft"}

\* A nil *Status.
Nil == "<nil>"

PriorityLow == "low"
PriorityMedium == "medium"
PriorityHigh == "high"

\* A nil *time.Time; clock values start at 1.
NoTime == 0

(***************************************************************************)
(* domain: the transition table (issue_status_log.go lines 40-103,167-185) *)
(***************************************************************************)
ValidTransitionsVerifiedFinal ==
    [s \in Statuses |->
        CASE s = StatusOpen        -> <<StatusAssignedDev, StatusClosed>>
          [] s = StatusAssignedDev -> <<StatusInProgress, StatusOpen, StatusClosed>>
          [] s = StatusInProgress  -> <<StatusResolved, StatusAssignedDev, StatusOpen>>
          [] s = StatusResolved    -> <<StatusAssignedQA, StatusClosed, StatusInProgress>>
          [] s = StatusAssignedQA  -> <<StatusVerified, StatusRejected, StatusResolved>>
          [] s = StatusVerified    -> <<StatusClosed>>
          [] s = StatusRejected    -> <<StatusAssignedDev, StatusInProgress, StatusOpen>>
          [] s = StatusClosed      -> <<StatusReopened>>
          [] s = StatusReopened    -> <<StatusOpen, StatusAssignedDev>>]

ValidTransitions ==
    [s \in Statuses |->
        CASE s = StatusOpen        -> <<StatusAssignedDev, StatusClosed>>
          [] s = StatusAssignedDev -> <<StatusInProgress, StatusOpen, StatusClosed>>
          [] s = StatusInProgress  -> <<StatusResolved, StatusAssignedDev, StatusOpen>>
          [] s = StatusResolved    -> <<StatusAssignedQA, StatusClosed, StatusInProgress>>
          [] s = StatusAssignedQA  -> <<StatusVerified, StatusRejected, StatusResolved>>
          [] s = StatusVerified    -> <<StatusClosed, StatusRejected>>
          [] s = StatusRejected    -> <<StatusAssignedDev, StatusInProgress, StatusOpen>>
          [] s = StatusClosed      -> <<StatusReopened>>
          [] s = StatusReopened    -> <<StatusOpen, StatusAssignedDev>>]

SeqToSet(s) == {s[k] : k \in 1..Len(s)}

IsStatusTransitionValidNilAny(from, to) ==
    IF from = Nil
    THEN TRUE
    ELSE IF from \notin DOMAIN ValidTransitions
         THEN FALSE
         ELSE \E k \in 1..Len(ValidTransitions[from]) : ValidTransitions[from][k] = to

IsStatusTransitionValid(from, to) ==
    IF from = Nil
    THEN to = StatusOpen
    ELSE IF from \notin DOMAIN ValidTransitions
         THEN FALSE
         ELSE \E k \in 1..Len(ValidTransitions[from]) : ValidTransitions[from][k] = to

NextTransitionsClosedFinal ==
    [s \in Statuses |->
        CASE s = StatusOpen        -> <<StatusAssignedDev, StatusClosed>>
          [] s = StatusAssignedDev -> <<StatusInProgress, StatusOpen, StatusClosed>>
          [] s = StatusInProgress  -> <<StatusResolved, StatusAssignedDev, StatusOpen>>
          [] s = StatusResolved    -> <<StatusAssignedQA, StatusClosed, StatusInProgress>>
          [] s = StatusAssignedQA  -> <<StatusVerified, StatusRejected, StatusResolved>>
          [] s = StatusVerified    -> <<StatusClosed, StatusRejected>>
          [] s = StatusRejected    -> <<StatusAssignedDev, StatusInProgress, StatusOpen>>
          [] s = StatusClosed      -> << >>
          [] s = StatusReopened    -> <<StatusOpen, StatusAssignedDev>>]

NextTransitions ==
    [s \in Statuses |->
        CASE s = StatusOpen        -> <<StatusAssignedDev, StatusClosed>>
          [] s = StatusAssignedDev -> <<StatusInProgress, StatusOpen, StatusClosed>>
          [] s = StatusInProgress  -> <<StatusResolved, StatusAssignedDev, StatusOpen>>
          [] s = StatusResolved    -> <<StatusAssignedQA, StatusClosed, StatusInProgress>>
          [] s = StatusAssignedQA  -> <<StatusVerified, StatusRejected, StatusResolved>>
          [] s = StatusVerified    -> <<StatusClosed, StatusRejected>>
          [] s = StatusRejected    -> <<StatusAssignedDev, StatusInProgress, StatusOpen>>
          [] s = StatusClosed      -> <<StatusReopened>>
          [] s = StatusReopened    -> <<StatusOpen, StatusAssignedDev>>]

GetNextPossibleStatusesClosedToOpen(currentStatus) ==
    IF currentStatus = StatusClosed
    THEN <<StatusReopened, StatusOpen>>
    ELSE IF currentStatus \in DOMAIN NextTransitions
         THEN NextTransitions[currentStatus]
         ELSE << >>

GetNextPossibleStatuses(currentStatus) ==
    IF currentStatus \in DOMAIN NextTransitions
    THEN NextTransitions[currentStatus]
    ELSE << >>

(***************************************************************************)
(* domain: Issue (part_004 lines 103-175, 245-274)                         *)
(* Of the struct's fields the model keeps those the workflow reads or      *)
(* writes: ID, Status, ClosedAt, Priority, ProjectID, ThreadID.            *)
(***************************************************************************)
IsValidPriorityAny(p) == TRUE

IsValidPriority(p) == p = PriorityLow \/ p = PriorityMedium \/ p = PriorityHigh

IsValidStatus(s) == s = StatusOpen \/ s = StatusClosed

Close(i, now) == [i EXCEPT !.Status = StatusClosed, !.ClosedAt = now]

ReopenKeepClosedAt(i) == [i EXCEPT !.Status = StatusOpen]

Reopen(i) == [i EXCEPT !.Status = StatusOpen, !.ClosedAt = NoTime]

CanTransitionTo(i, newStatus) ==
    IsStatusTransitionValid(IF i.Status = "" THEN Nil ELSE i.Status, newStatus)

(***************************************************************************)
(* SpecTable: the transition table's functions on every argument           *)
(***************************************************************************)
NoIssue == [exists |-> FALSE, ID |-> 0, Status |-> "", ClosedAt |-> NoTime,
            Priority |-> "", ProjectID |-> "", ThreadID |-> ""]

ZeroIssue == [NoIssue EXCEPT !.exists = TRUE]

TableArgs == [from : StatusInputs \cup {Nil}, to : StatusInputs]

NoQuery(a) == [op |-> "none", from |-> a.from, to |-> a.to,
               valid |-> FALSE, next |-> << >>]

\* no StatusLogs read yet
NoHist == [op |-> "none", given |-> << >>, StatusLogs |-> << >>,
           history |-> << >>, latest |-> << >>]

varsChan == <<customers, projects, channels, lastR>>

NoRegistration == [op |-> "none", channelID |-> "", customerName |-> "",
                   projectName |-> "", registeredBy |-> "", fault |-> "none",
                   err |-> "nil",
                   pre |-> [customers |-> {}, projects |-> {}, users |-> {},
                            channels |-> {}]]

\* an empty database, no registration attempted
InitChanStores ==
    /\ customers = {}
    /\ projects = {}
    /\ channels = {}
    /\ lastR = NoRegistration

varsTable == <<tq, hq, varsChan>>
varsSvc == <<issues, statusLogs, users, nextIssue, clock, applied, last>>
varsObj == <<obj, objLog>>
varsConc == <<procs, writes, aprocs>>
varsAssign == <<assignees, nextAssignee, lastA, prevA>>

CallIsStatusTransitionValid ==
    /\ tq.op = "none"
    /\ tq' = [tq EXCEPT !.op = "IsStatusTransitionValid",
                        !.valid = IsStatusTransitionValid(tq.from, tq.to)]
    /\ UNCHANGED <<hq, varsChan>>
    /\ UNCHANGED <<varsSvc, varsObj, varsConc, varsAssign>>

CallCanTransitionTo ==
    /\ tq.op = "none"
    /\ tq.from # Nil
    /\ tq' = [tq EXCEPT !.op = "CanTransitionTo",
                        !.valid = CanTransitionTo([ZeroIssue EXCEPT !.Status = tq.from], tq.to)]
    /\ UNCHANGED <<hq, varsChan>>
    /\ UNCHANGED <<varsSvc, varsObj, varsConc, varsAssign>>

CallGetNextPossibleStatuses ==
    /\ tq.op = "none"
    /\ tq.from # Nil
    /\ tq' = [tq EXCEPT !.op = "GetNextPossibleStatuses",
                        !.next = GetNextPossibleStatuses(tq.from)]
    /\ UNCHANGED <<hq, varsChan>>
    /\ UNCHANGED <<varsSvc, varsObj, varsConc, varsAssign>>

(***************************************************************************)
(* domain: the second, reduced pair of table functions                     *)
(* (issue_status_log.go lines 248-300, 356-373) and the buttons of the     *)
(* issue card built from it (commands.go lines 230-243, 282-377).          *)
(* StatusDraft is used by both but declared in no source file; it is a     *)
(* Status outside the 9.                                                   *)
(***************************************************************************)
StatusDraft == "draft"

ValidTransitionsReduced ==
    [s \in {StatusOpen, StatusInProgress, StatusResolved, StatusVerified,
            StatusRejected, StatusClosed, StatusReopened} |->
        CASE s = StatusOpen       -> <<StatusClosed>>
          [] s = StatusInProgress -> <<StatusResolved, StatusOpen, StatusClosed>>
          [] s = StatusResolved   -> <<StatusVerified, StatusOpen>>
          [] s = StatusVerified   -> <<StatusClosed, StatusRejected, StatusResolved>>
          [] s = StatusRejected   -> <<StatusInProgress, StatusInProgress, StatusOpen>>
          [] s = StatusClosed     -> <<StatusReopened>>
          [] s = StatusReopened   -> <<StatusOpen, StatusInProgress>>]

IsStatusTransitionValidReduced(from, to) ==
    IF from = Nil
    THEN to = StatusOpen
    ELSE IF from \notin DOMAIN ValidTransitionsReduced
         THEN FALSE
         ELSE \E k \in 1..Len(ValidTransitionsReduced[from]) :
                 ValidTransitionsReduced[from][k] = to

NextTransitionsReduced ==
    [s \in {StatusDraft, StatusOpen, StatusInProgress, StatusResolved,
            StatusVerified, StatusRejected, StatusClosed, StatusReopened} |->
        CASE s = StatusDraft      -> <<StatusOpen>>
          [] s = StatusOpen       -> <<StatusInProgress, StatusClosed>>
          [] s = StatusInProgress -> <<StatusResolved>>
          [] s = StatusResolved   -> <<StatusVerified>>
          [] s = StatusVerified   -> <<StatusClosed, StatusRejected>>
          [] s = StatusRejected   -> <<StatusInProgress, StatusOpen>>
          [] s = StatusClosed     -> <<StatusReopened>>
          [] s = StatusReopened   -> <<StatusOpen>>]

GetNextPossibleStatusesReduced(currentStatus) ==
    IF currentStatus \in DOMAIN NextTransitionsReduced
    THEN NextTransitionsReduced[currentStatus]
    ELSE << >>

\* TRUE when createStatusButton returns a button, FALSE when it returns nil
createStatusButton(status) ==
    status \in {StatusDraft, StatusOpen, StatusInProgress, StatusResolved, StatusClosed}

\* The statuses of the buttons, in the order the buttons are appended
createActionButtons(status) ==
    SelectSeq(GetNextPossibleStatusesReduced(status), createStatusButton)

CallCreateActionButtons ==
    /\ tq.op = "none"
    /\ tq.from # Nil
    /\ tq' = [tq EXCEPT !.op = "createActionButtons",
                        !.next = createActionButtons(tq.from)]
    /\ UNCHANGED <<hq, varsChan>>
    /\ UNCHANGED <<varsSvc, varsObj, varsConc, varsAssign>>

NoCall == [op |-> "none", id |-> 0, status |-> "", priority |-> "",
           fault |-> "none", err |-> "nil", pre |-> NoIssue, preLogs |-> << >>,
           preIssues |-> << >>,
           in |-> [title |-> "", description |-> "", reporterID |-> "",
                   channelID |-> "", projectID |-> ""],
           partialID |-> << >>, found |-> {}]

NoLog == [exists |-> FALSE, IssueID |-> 0, OldStatus |-> Nil, NewStatus |-> "",
          ChangedBy |-> Nil, ChangedAt |-> NoTime]

NoProc == [pc |-> "idle", op |-> "none", id |-> 0, status |-> "", priority |-> "",
           err |-> "nil",
           read |-> FALSE, pre |-> NoIssue, issue |-> NoIssue, readAt |-> 0]

NoAProc == [pc |-> "idle", issue |-> 0, user |-> "", role |-> "", err |-> "nil",
            ret |-> 0, lookedAt |-> 0]

NoACall == [op |-> "none", issue |-> 0, user |-> "", role |-> "",
             fault |-> "none", err |-> "nil", ret |-> 0, count |-> 0,
             failing |-> {}, pre |-> << >>, preUsers |-> {}]

InitStores ==
    /\ issues = [id \in 1..MaxIssues |-> NoIssue]
    /\ statusLogs = << >>
    /\ users = {}
    /\ nextIssue = 0
    /\ clock = 1
    /\ applied = [id \in 1..MaxIssues |-> << >>]
    /\ last = NoCall
    /\ obj = ZeroIssue
    /\ objLog = NoLog
    /\ procs = [p \in 1..MaxProcs |-> NoProc]
    /\ writes = 0
    /\ aprocs = [p \in 1..MaxProcs |-> NoAProc]
    /\ assignees = << >>
    /\ nextAssignee = 0
    /\ lastA = NoACall
    /\ prevA = NoACall

InitTable ==
    /\ tq \in {NoQuery(a) : a \in TableArgs}
    /\ hq = NoHist
    /\ InitChanStores
    /\ InitStores

NextTable ==
    \/ CallIsStatusTransitionValid
    \/ CallCanTransitionTo
    \/ CallGetNextPossibleStatuses
    \/ CallCreateActionButtons

SpecTable == InitTable /\ [][NextTable]_vars

(***************************************************************************)
(* C3: for each of the 9 statuses GetNextPossibleStatuses returns exactly  *)
(* the targets of that status's row of the transition table, and for any   *)
(* value that is not one of the 9 statuses it returns nothing.             *)
(***************************************************************************)
TableRow(s) ==
    CASE s = "open"         -> {"assigned_dev", "closed"}
      [] s = "assigned_dev" -> {"in_progress", "open", "closed"}
      [] s = "in_progress"  -> {"resolved", "assigned_dev", "open"}
      [] s = "resolved"     -> {"assigned_qa", "closed", "in_progress"}
      [] s = "assigned_qa"  -> {"verified", "rejected", "resolved"}
      [] s = "verified"     -> {"closed", "rejected"}
      [] s = "rejected"     -> {"assigned_dev", "in_progress", "open"}
      [] s = "closed"       -> {"reopened"}
      [] s = "reopened"     -> {"open", "assigned_dev"}
      [] OTHER              -> {}

C3_NextStatusesAreTableRow ==
    tq.op = "GetNextPossibleStatuses" => SeqToSet(tq.next) = TableRow(tq.from)

C3_Witness ==
    /\ tq.op = "GetNextPossibleStatuses"
    /\ tq.from = "closed"
    /\ tq.next = <<"reopened">>

(***************************************************************************)
(* C4: with a nil from (the issue does not exist yet)                      *)
(* IsStatusTransitionValid is true for open and false for each of the      *)
(* other statuses, and Issue.CanTransitionTo on an issue whose status is   *)
(* empty answers the same.                                                 *)
(***************************************************************************)
C4_NilFromOnlyOpen ==
    /\ (tq.op = "IsStatusTransitionValid" /\ tq.from = Nil)
          => (tq.valid <=> tq.to = "open")
    /\ (tq.op = "CanTransitionTo" /\ tq.from = "")
          => (tq.valid <=> tq.to = "open")

C4_Witness ==
    /\ tq.op = "CanTransitionTo"
    /\ tq.from = ""
    /\ tq.to = "closed"
    /\ ~tq.valid


(***************************************************************************)
(* repository: issueRepository (project_repository.go lines 226-398)       *)
(* ok = FALSE is a failure of the database call; a failed Save writes      *)
(* nothing.                                                                *)
(***************************************************************************)
IssueIds == 1..MaxIssues

RepoGetErr(store, id, ok) ==
    IF ~ok THEN "storage failure"
    ELSE IF ~store[id].exists THEN "issue not found"
    ELSE "nil"

RepoUpdateWritesOnFailure(store, id, issue, ok) ==
    IF store[id].exists THEN [store EXCEPT ![id] = issue] ELSE store

RepoUpdate(store, id, issue, ok) ==
    IF ok /\ store[id].exists THEN [store EXCEPT ![id] = issue] ELSE store

RepoUpdateErr(store, id, ok) ==
    IF ~ok THEN "update failed"
    ELSE IF ~store[id].exists THEN "issue not found"
    ELSE "nil"

(***************************************************************************)
(* service: issueService (issue_service.go)                                *)
(***************************************************************************)
Faults == {"none", "get", "update"}

\* lines 237-245: the mutation of the loaded issue
SetStatus(issue, status, now) ==
    IF status = StatusClosed
    THEN Close(issue, now)
    ELSE IF status = StatusOpen
         THEN Reopen([issue EXCEPT !.Status = status])
         ELSE [issue EXCEPT !.Status = status]

\* lines 215-261: the error returned and the issues table afterwards
UpdateIssueStatus(store, id, status, fault, now) ==
    IF ~IsValidStatus(status)
    THEN [err |-> "invalid status", issues |-> store]
    ELSE IF RepoGetErr(store, id, fault # "get") # "nil"
    THEN [err |-> RepoGetErr(store, id, fault # "get"), issues |-> store]
    ELSE LET issue == SetStatus(store[id], status, now)
         IN  [err |-> RepoUpdateErr(store, id, fault # "update"),
              issues |-> RepoUpdate(store, id, issue, fault # "update")]

\* The database failures that can strike a call: none before the status is
\* validated, the read always, the write only once the issue was read.
StatusFaults(id, status) ==
    IF ~IsValidStatus(status) THEN {"none"}
    ELSE IF ~issues[id].exists THEN {"none", "get"}
    ELSE Faults

StatusCall(op, id, status, fault) ==
    /\ clock < MaxClock
    /\ LET r == UpdateIssueStatus(issues, id, status, fault, clock)
       IN  /\ issues' = r.issues
           /\ applied' = IF r.err = "nil" /\ r.issues[id].Status # issues[id].Status
                         THEN [applied EXCEPT ![id] = Append(@, r.issues[id].Status)]
                         ELSE applied
           /\ last' = [op |-> op, id |-> id, status |-> status, priority |-> "",
                       fault |-> fault, err |-> r.err, pre |-> issues[id],
                       preLogs |-> statusLogs, preIssues |-> issues,
                       in |-> NoCall.in, partialID |-> << >>, found |-> {}]
    /\ clock' = clock + 1
    /\ UNCHANGED <<statusLogs, users, nextIssue>>
    /\ UNCHANGED <<varsTable, varsObj, varsConc, varsAssign>>

DoUpdateIssueStatus ==
    \E id \in IssueIds, status \in StatusInputs :
        \E fault \in StatusFaults(id, status) :
            StatusCall("UpdateIssueStatus", id, status, fault)

\* lines 345-348
CloseIssue ==
    \E id \in IssueIds :
        \E fault \in StatusFaults(id, StatusClosed) :
            StatusCall("CloseIssue", id, StatusClosed, fault)

\* lines 360-363
ReopenIssue ==
    \E id \in IssueIds :
        \E fault \in StatusFaults(id, StatusOpen) :
            StatusCall("ReopenIssue", id, StatusOpen, fault)

PriorityInputs == {PriorityLow, PriorityHigh, "urgent"}

\* lines 173-212: the error returned and the issues table afterwards
UpdateIssuePriority(store, id, priority, fault) ==
    IF ~IsValidPriority(priority)
    THEN [err |-> "invalid priority", issues |-> store]
    ELSE IF RepoGetErr(store, id, fault # "get") # "nil"
    THEN [err |-> RepoGetErr(store, id, fault # "get"), issues |-> store]
    ELSE LET issue == [store[id] EXCEPT !.Priority = priority]
         IN  [err |-> RepoUpdateErr(store, id, fault # "update"),
              issues |-> RepoUpdate(store, id, issue, fault # "update")]

PriorityFaults(id, priority) ==
    IF ~IsValidPriority(priority) THEN {"none"}
    ELSE IF ~issues[id].exists THEN {"none", "get"}
    ELSE Faults

DoUpdateIssuePriority ==
    \E id \in IssueIds, priority \in PriorityInputs :
      \E fault \in PriorityFaults(id, priority) :
        /\ clock < MaxClock
        /\ LET r == UpdateIssuePriority(issues, id, priority, fault)
           IN  /\ issues' = r.issues
               /\ last' = [NoCall EXCEPT !.op = "UpdateIssuePriority", !.id = id,
                               !.priority = priority, !.fault = fault, !.err = r.err,
                               !.pre = issues[id], !.preLogs = statusLogs,
                               !.preIssues = issues]
        /\ clock' = clock + 1
        /\ UNCHANGED <<statusLogs, users, nextIssue, applied>>
        /\ UNCHANGED <<varsTable, varsObj, varsConc, varsAssign>>

ThreadInputs == {"t1"}

UpdateIssueThreadInfoDropsProject(store, id, threadID, fault) ==
    IF RepoGetErr(store, id, fault # "get") # "nil"
    THEN [err |-> RepoGetErr(store, id, fault # "get"), issues |-> store]
    ELSE LET issue == [store[id] EXCEPT !.ThreadID = threadID, !.ProjectID = ""]
         IN  [err |-> RepoUpdateErr(store, id, fault # "update"),
              issues |-> RepoUpdate(store, id, issue, fault # "update")]

\* lines 264-299: the error returned and the issues table afterwards
UpdateIssueThreadInfo(store, id, threadID, fault) ==
    IF RepoGetErr(store, id, fault # "get") # "nil"
    THEN [err |-> RepoGetErr(store, id, fault # "get"), issues |-> store]
    ELSE LET issue == [store[id] EXCEPT !.ThreadID = threadID]
         IN  [err |-> RepoUpdateErr(store, id, fault # "update"),
              issues |-> RepoUpdate(store, id, issue, fault # "update")]

ThreadCall(op, id, threadID, fault) ==
    /\ clock < MaxClock
    /\ LET r == UpdateIssueThreadInfo(issues, id, threadID, fault)
       IN  /\ issues' = r.issues
           /\ last' = [NoCall EXCEPT !.op = op, !.id = id, !.fault = fault,
                           !.err = r.err, !.pre = issues[id],
                           !.preLogs = statusLogs, !.preIssues = issues]
    /\ clock' = clock + 1
    /\ UNCHANGED <<statusLogs, users, nextIssue, applied>>
    /\ UNCHANGED <<varsTable, varsObj, varsConc, varsAssign>>

DoUpdateIssueThreadInfo ==
    \E id \in IssueIds, threadID \in ThreadInputs :
      \E fault \in (IF issues[id].exists THEN Faults ELSE {"none", "get"}) :
        ThreadCall("UpdateIssueThreadInfo", id, threadID, fault)

\* lines 366-368
SetThreadInfo ==
    \E id \in IssueIds, threadID \in ThreadInputs :
      \E fault \in (IF issues[id].exists THEN Faults ELSE {"none", "get"}) :
        ThreadCall("SetThreadInfo", id, threadID, fault)

\* issue.ID.String(): the canonical text of the ID uuid.New() drew, as its
\* sequence of characters (two stand for the 36); the IDs of the 1st, 3rd, ...
\* issue share their first character, as random UUIDs may
HexDigits == <<"1", "2", "3", "4", "5", "6", "7", "8", "9">>

IDString(id) == <<IF id % 2 = 1 THEN "a" ELSE "b", HexDigits[id]>>

\* strings.HasPrefix
HasPrefix(str, prefix) ==
    /\ Len(prefix) <= Len(str)
    /\ \A k \in 1..Len(prefix) : str[k] = prefix[k]

PartialIDs == {<<"a">>, <<"a", "1">>, <<"c">>}

\* lines 302-315: the IDs of the issues returned
SearchIssuesByID(store, partialID) == {}

DoSearchIssuesByID ==
    \E partialID \in PartialIDs :
        /\ clock < MaxClock
        /\ last' = [NoCall EXCEPT !.op = "SearchIssuesByID", !.partialID = partialID,
                                  !.found = SearchIssuesByID(issues, partialID),
                                  !.preLogs = statusLogs, !.preIssues = issues]
        /\ clock' = clock + 1
        /\ UNCHANGED <<issues, statusLogs, users, nextIssue, applied>>
        /\ UNCHANGED <<varsTable, varsObj, varsConc, varsAssign>>

\* The channel registrations CreateIssue finds (channel_service.go
\* RegisterChannel wrote them): Discord channel ID -> project.
RegisteredChannels == [c \in {"c1"} |-> "p1"]

\* lines 38-65: the error returned and the users table afterwards
GetOrCreateUser(table, discordID, ok) ==
    IF discordID \in table
    THEN [err |-> "nil", users |-> table]
    ELSE IF ~ok
         THEN [err |-> "failed to create user", users |-> table]
         ELSE [err |-> "nil", users |-> table \cup {discordID}]

NewIssueDraft(id, projectID) ==
    [exists |-> TRUE, ID |-> id, Status |-> "draft", ClosedAt |-> NoTime,
     Priority |-> PriorityMedium, ProjectID |-> projectID, ThreadID |-> ""]

\* lines 102-114: the issue CreateIssue builds
NewIssue(id, projectID) ==
    [exists |-> TRUE, ID |-> id, Status |-> StatusOpen, ClosedAt |-> NoTime,
     Priority |-> PriorityMedium, ProjectID |-> projectID, ThreadID |-> ""]

\* lines 68-133
\* The arguments tried: a complete request from a registered channel, one
\* from a channel that is not registered, and one with each field empty.
CreateInputs ==
    {[title |-> "t", description |-> "d", reporterID |-> "u1", channelID |-> "c1"],
     [title |-> "t", description |-> "d", reporterID |-> "u1", channelID |-> "c2"],
     [title |-> "",  description |-> "d", reporterID |-> "u1", channelID |-> "c1"],
     [title |-> "t", description |-> "",  reporterID |-> "u1", channelID |-> "c1"],
     [title |-> "t", description |-> "d", reporterID |-> "",   channelID |-> "c1"],
     [title |-> "t", description |-> "d", reporterID |-> "u1", channelID |-> ""]}

CreateIssue ==
    \E in \in CreateInputs, fault \in {"none", "user", "create"} :
        /\ clock < MaxClock
        /\ nextIssue < MaxIssues
        /\ LET invalid == in.title = "" \/ in.description = ""
                              \/ in.reporterID = "" \/ in.channelID = ""
               noChannel == in.channelID \notin DOMAIN RegisteredChannels
               u == GetOrCreateUser(users, in.reporterID, fault # "user")
               id == nextIssue + 1
               err == IF invalid THEN "invalid issue input"
                      ELSE IF noChannel THEN "failed to get channel registration"
                      ELSE IF u.err # "nil" THEN "failed to get or create user"
                      ELSE IF fault = "create" THEN "failed to create issue"
                      ELSE "nil"
           IN  /\ ~(invalid \/ noChannel) \/ fault = "none"
               /\ in.reporterID \notin users \/ fault # "user"
               /\ users' = IF invalid \/ noChannel THEN users ELSE u.users
               /\ issues' = IF err = "nil"
                            THEN [issues EXCEPT ![id] = NewIssue(id, RegisteredChannels[in.channelID])]
                            ELSE issues
               /\ nextIssue' = IF err = "nil" THEN id ELSE nextIssue
               /\ last' = [NoCall EXCEPT !.op = "CreateIssue", !.fault = fault, !.err = err,
                                         !.id = IF err = "nil" THEN id ELSE 0,
                                         !.preLogs = statusLogs,
                                         !.preIssues = issues,
                                         !.in = [title |-> in.title,
                                                 description |-> in.description,
                                                 reporterID |-> in.reporterID,
                                                 channelID |-> in.channelID,
                                                 projectID |-> "n/a"]]
        /\ clock' = clock + 1
        /\ UNCHANGED <<statusLogs, applied>>
        /\ UNCHANGED <<varsTable, varsObj, varsConc, varsAssign>>

\* lines 371-414: the web portal names the project itself; "" is uuid.Nil
WebInputs ==
    {[title |-> "t", description |-> "d", projectID |-> "p2", reporterID |-> "u1"],
     [title |-> "",  description |-> "d", projectID |-> "p2", reporterID |-> "u1"],
     [title |-> "t", description |-> "",  projectID |-> "p2", reporterID |-> "u1"],
     [title |-> "t", description |-> "d", projectID |-> "",   reporterID |-> "u1"],
     [title |-> "t", description |-> "d", projectID |-> "p2", reporterID |-> ""]}

CreateWebIssue ==
    \E in \in WebInputs, fault \in {"none", "create"} :
        /\ clock < MaxClock
        /\ nextIssue < MaxIssues
        /\ LET invalid == in.title = "" \/ in.description = ""
                              \/ in.projectID = "" \/ in.reporterID = ""
               id == nextIssue + 1
               err == IF invalid THEN "invalid issue input"
                      ELSE IF fault = "create" THEN "failed to create web issue"
                      ELSE "nil"
           IN  /\ ~invalid \/ fault = "none"
               /\ issues' = IF err = "nil"
                            THEN [issues EXCEPT ![id] = NewIssue(id, in.projectID)]
                            ELSE issues
               /\ nextIssue' = IF err = "nil" THEN id ELSE nextIssue
               /\ last' = [NoCall EXCEPT !.op = "CreateWebIssue", !.fault = fault,
                                         !.err = err,
                                         !.id = IF err = "nil" THEN id ELSE 0,
                                         !.preLogs = statusLogs,
                                         !.preIssues = issues,
                                         !.in = [title |-> in.title,
                                                 description |-> in.description,
                                                 reporterID |-> in.reporterID,
                                                 channelID |-> "n/a",
                                                 projectID |-> in.projectID]]
        /\ clock' = clock + 1
        /\ UNCHANGED <<statusLogs, users, applied>>
        /\ UNCHANGED <<varsTable, varsObj, varsConc, varsAssign>>

(***************************************************************************)
(* domain: Issue.ChangeStatus (part_004 lines 245-265) and                 *)
(* NewIssueStatusLog (issue_status_log.go lines 28-38)                     *)
(* oldStatus is &i.Status, a pointer to the issue's own Status field, or   *)
(* nil: the entry holds the pointer, and what it reads is the field's      *)
(* value at the time of the read.                                          *)
(***************************************************************************)
StatusFieldPtr == "&i.Status"

NewIssueStatusLog(issueID, oldStatus, newStatus, changedBy, now) ==
    [exists |-> TRUE, IssueID |-> issueID, OldStatus |-> oldStatus,
     NewStatus |-> newStatus, ChangedBy |-> changedBy, ChangedAt |-> now]

ChangeStatus(i, newStatus, changedBy, now) ==
    LET oldStatus == IF i.Status = "" THEN Nil ELSE StatusFieldPtr
    IN  [issue |-> [i EXCEPT !.Status = newStatus,
                             !.ClosedAt = IF newStatus = StatusClosed THEN now
                                          ELSE IF i.ClosedAt # NoTime THEN NoTime
                                          ELSE i.ClosedAt],
         log |-> NewIssueStatusLog(i.ID, oldStatus, newStatus, changedBy, now)]

\* *log.OldStatus as read from an entry whose pointer targets owner.Status
Deref(log, owner) == IF log.OldStatus = Nil THEN Nil ELSE owner.Status

\* An Issue value in memory belongs to its caller and shares nothing with the
\* stores, so its methods commute with the service calls: they are explored
\* ahead of the service calls only (ObjFirst).
ObjFirst == last.op = "none"

ObjChangeStatus ==
    \E newStatus \in StatusInputs, changedBy \in {Nil, "u1"} :
        /\ clock < MaxClock
        /\ ObjFirst
        /\ LET r == ChangeStatus(obj, newStatus, changedBy, clock)
           IN  /\ obj' = r.issue
               /\ objLog' = r.log
        /\ clock' = clock + 1
        /\ UNCHANGED <<issues, statusLogs, users, nextIssue, applied, last>>
        /\ UNCHANGED <<varsTable, varsConc, varsAssign>>

ObjClose ==
    /\ clock < MaxClock
    /\ ObjFirst
    /\ obj' = Close(obj, clock)
    /\ clock' = clock + 1
    /\ UNCHANGED <<issues, statusLogs, users, nextIssue, applied, last, objLog>>
    /\ UNCHANGED <<varsTable, varsConc, varsAssign>>

ObjReopen ==
    /\ clock < MaxClock
    /\ ObjFirst
    /\ obj' = Reopen(obj)
    /\ clock' = clock + 1
    /\ UNCHANGED <<issues, statusLogs, users, nextIssue, applied, last, objLog>>
    /\ UNCHANGED <<varsTable, varsConc, varsAssign>>

(***************************************************************************)
(* Spec: the issue service and the domain methods, one call per step       *)
(***************************************************************************)
Init ==
    /\ tq = NoQuery([from |-> Nil, to |-> ""])
    /\ hq = NoHist
    /\ InitChanStores
    /\ InitStores

Next ==
    \/ CreateIssue
    \/ DoUpdateIssueStatus
    \/ CloseIssue
    \/ ReopenIssue
    \/ CreateWebIssue
    \/ DoUpdateIssuePriority
    \/ DoUpdateIssueThreadInfo
    \/ SetThreadInfo
    \/ DoSearchIssuesByID
    \/ ObjChangeStatus
    \/ ObjClose
    \/ ObjReopen

Spec == Init /\ [][Next]_vars


(***************************************************************************)
(* The claims about the issue service                                      *)
(***************************************************************************)
StatusOps == {"UpdateIssueStatus", "CloseIssue", "ReopenIssue"}

\* the status-log entries of an issue, oldest first
LogsOf(id) == SelectSeq(statusLogs, LAMBDA e : e.IssueID = id)

(***************************************************************************)
(* C1: when the move from the stored issue's status to the requested       *)
(* status is not an edge of the transition table, UpdateIssueStatus,       *)
(* CloseIssue and ReopenIssue return a failure, the stored status and      *)
(* closed_at stay as they were and no status-log entry is created.         *)
(***************************************************************************)
C1_InvalidTransitionRejected ==
    (/\ last.op \in StatusOps
     /\ last.pre.exists
     /\ ~CanTransitionTo(last.pre, last.status))
        => /\ last.err # "nil"
           /\ issues[last.id].Status = last.pre.Status
           /\ issues[last.id].ClosedAt = last.pre.ClosedAt
           /\ statusLogs = last.preLogs

(***************************************************************************)
(* C2: when the transition table allows the move from the stored issue's   *)
(* status to the requested status (and the database does not fail), the    *)
(* status-changing operation succeeds and the stored status is the         *)
(* requested one.                                                          *)
(***************************************************************************)
C2_ValidTransitionAccepted ==
    (/\ last.op \in StatusOps
     /\ last.pre.exists
     /\ last.fault = "none"
     /\ CanTransitionTo(last.pre, last.status))
        => /\ last.err = "nil"
           /\ issues[last.id].Status = last.status

(***************************************************************************)
(* C6: in every reachable state, for every stored issue and for an         *)
(* in-memory issue driven by ChangeStatus, Close and Reopen, closed_at is  *)
(* set if and only if the status is closed.                                *)
(***************************************************************************)
ClosedAtMatchesStatus(i) == (i.ClosedAt # NoTime) <=> (i.Status = StatusClosed)

C6_ClosedAtIffClosed ==
    /\ \A id \in IssueIds : issues[id].exists => ClosedAtMatchesStatus(issues[id])
    /\ ClosedAtMatchesStatus(obj)

C6_Witness ==
    /\ last.op = "ReopenIssue"
    /\ last.err = "nil"
    /\ last.pre.Status = StatusClosed
    /\ last.pre.ClosedAt # NoTime
    /\ issues[last.id].Status = StatusOpen
    /\ issues[last.id].ClosedAt = NoTime

(***************************************************************************)
(* C7: every accepted status change creates exactly one status-log entry   *)
(* and every rejected or failed request none: the number of log entries of *)
(* an issue equals the number of status changes applied to it.             *)
(***************************************************************************)
C7_OneLogEntryPerChange ==
    \A id \in IssueIds : Len(LogsOf(id)) = Len(applied[id])

(***************************************************************************)
(* C8: for every issue, with its log entries oldest first, each entry's    *)
(* old_status is the previous entry's new_status, the new_status values    *)
(* are the statuses the issue took, in order, and the newest entry's       *)
(* new_status is the issue's current status.                               *)
(***************************************************************************)
C8_LogReplaysHistory ==
    \A id \in IssueIds :
        LET L == LogsOf(id)
        IN  /\ \A n \in 1..(Len(L) - 1) : L[n + 1].OldStatus = L[n].NewStatus
            /\ [n \in 1..Len(L) |-> L[n].NewStatus] = applied[id]
            /\ Len(L) > 0 => L[Len(L)].NewStatus = issues[id].Status

(***************************************************************************)
(* C9: when persisting the issue fails during a status change, the         *)
(* operation returns the failure and the stored issue's status and         *)
(* closed_at and the status log are what they were before the call.        *)
(***************************************************************************)
C9_FailedPersistChangesNothing ==
    (last.op \in StatusOps /\ last.fault = "update")
        => /\ last.err = "update failed"
           /\ issues[last.id].Status = last.pre.Status
           /\ issues[last.id].ClosedAt = last.pre.ClosedAt
           /\ statusLogs = last.preLogs

C9_Witness ==
    /\ last.op = "CloseIssue"
    /\ last.fault = "update"
    /\ last.err = "update failed"
    /\ last.pre.Status = StatusOpen
    /\ issues[last.id].Status = StatusOpen
    /\ issues[last.id].ClosedAt = NoTime


(***************************************************************************)
(* SpecConc: UpdateIssueStatus calls that overlap.  A call holds no lock   *)
(* and issueRepository.Update saves the whole row with no version check,   *)
(* so a call is two steps: ConcRead (lines 215-245: validate, GetByID,     *)
(* mutate the loaded issue) and ConcSave (lines 247-260: Update).          *)
(***************************************************************************)
Procs == 1..MaxProcs

ConcRead(p) ==
    \E id \in IssueIds, status \in StatusInputs, ok \in BOOLEAN :
        /\ procs[p].pc = "idle"
        /\ LET getErr == RepoGetErr(issues, id, ok)
               call == [NoProc EXCEPT !.op = "UpdateIssueStatus", !.id = id,
                                      !.status = status]
           IN  procs' = [procs EXCEPT ![p] =
                   IF ~IsValidStatus(status)
                   THEN [call EXCEPT !.pc = "done", !.err = "invalid status"]
                   ELSE IF getErr # "nil"
                   THEN [call EXCEPT !.pc = "done", !.err = getErr]
                   ELSE [call EXCEPT !.pc = "loaded", !.read = TRUE,
                                     !.pre = issues[id], !.readAt = writes,
                                     !.issue = SetStatus(issues[id], status, clock)]]
        /\ clock' = clock + 1
        /\ UNCHANGED <<issues, statusLogs, users, nextIssue, applied, last, writes,
                       aprocs>>
        /\ UNCHANGED <<varsTable, varsObj, varsAssign>>

\* UpdateIssuePriority up to and including GetByID and the assignment of
\* Priority to the row it loaded
ConcReadPriority(p) ==
    \E id \in IssueIds, priority \in {PriorityLow, "urgent"}, ok \in BOOLEAN :
        /\ procs[p].pc = "idle"
        /\ LET getErr == RepoGetErr(issues, id, ok)
               call == [NoProc EXCEPT !.op = "UpdateIssuePriority", !.id = id,
                                      !.priority = priority]
           IN  procs' = [procs EXCEPT ![p] =
                   IF ~IsValidPriority(priority)
                   THEN [call EXCEPT !.pc = "done", !.err = "invalid priority"]
                   ELSE IF getErr # "nil"
                   THEN [call EXCEPT !.pc = "done", !.err = getErr]
                   ELSE [call EXCEPT !.pc = "loaded", !.read = TRUE,
                                     !.pre = issues[id], !.readAt = writes,
                                     !.issue = [issues[id] EXCEPT !.Priority = priority]]]
        /\ clock' = clock + 1
        /\ UNCHANGED <<issues, statusLogs, users, nextIssue, applied, last, writes,
                       aprocs>>
        /\ UNCHANGED <<varsTable, varsObj, varsAssign>>

ConcSave(p) ==
    \E ok \in BOOLEAN :
        /\ procs[p].pc = "loaded"
        /\ issues' = RepoUpdate(issues, procs[p].id, procs[p].issue, ok)
        /\ procs' = [procs EXCEPT ![p].pc = "done",
                                  ![p].err = RepoUpdateErr(issues, procs[p].id, ok)]
        /\ writes' = IF RepoUpdateErr(issues, procs[p].id, ok) = "nil"
                     THEN writes + 1 ELSE writes
        /\ UNCHANGED <<statusLogs, users, nextIssue, clock, applied, last, aprocs>>
        /\ UNCHANGED <<varsTable, varsObj, varsAssign>>

\* The calls start on an issue CreateIssue stored, open or since closed.
InitConc ==
    /\ tq = NoQuery([from |-> Nil, to |-> ""])
    /\ hq = NoHist
    /\ InitChanStores
    /\ \E row \in {NewIssue(1, "p1"), Close(NewIssue(1, "p1"), 2)} :
          /\ issues = [id \in IssueIds |-> IF id = 1 THEN row ELSE NoIssue]
          /\ applied = [id \in IssueIds |->
                           IF id = 1 /\ row.Status = StatusClosed
                           THEN <<StatusClosed>> ELSE << >>]
          /\ clock = IF row.Status = StatusClosed THEN 3 ELSE 2
    /\ statusLogs = << >>
    /\ users = {"u1"}
    /\ nextIssue = 1
    /\ last = NoCall
    /\ obj = ZeroIssue
    /\ objLog = NoLog
    /\ procs = [p \in Procs |-> NoProc]
    /\ writes = 0
    /\ aprocs = [p \in Procs |-> NoAProc]
    /\ assignees = << >>
    /\ nextAssignee = 0
    /\ lastA = NoACall
    /\ prevA = NoACall

NextConc == \E p \in Procs : ConcRead(p) \/ ConcReadPriority(p) \/ ConcSave(p)

SpecConc == InitConc /\ [][NextConc]_vars

(***************************************************************************)
(* C5: when two or more status-change requests with different targets run  *)
(* concurrently against the same issue, each reading the issue before any  *)
(* of them has written, storage fails for none of them, and some target is *)
(* a valid move from the status before the calls, exactly one succeeds,    *)
(* its move is valid from  *)
(* the status before the calls, the stored status is its target, and the   *)
(* issue has exactly one new status-log entry.                             *)
(***************************************************************************)
Batch == {p \in Procs : /\ procs[p].op = "UpdateIssueStatus"
                         /\ procs[p].pc = "done"
                         /\ procs[p].read}

C5_ExactlyOneWinner ==
    (/\ \A p \in Procs : procs[p].pc \in {"idle", "done"}
     /\ Cardinality(Batch) >= 2
     /\ \A p \in Batch : procs[p].id = 1 /\ procs[p].readAt = 0
     /\ \A p \in Batch : procs[p].err # "update failed"
     /\ \A p, q \in Batch : p # q => procs[p].status # procs[q].status
     /\ \E p \in Batch : CanTransitionTo(procs[p].pre, procs[p].status))
        => \E w \in Batch :
              /\ procs[w].err = "nil"
              /\ \A q \in Batch \ {w} : procs[q].err # "nil"
              /\ CanTransitionTo(procs[w].pre, procs[w].status)
              /\ issues[1].Status = procs[w].status
              /\ Len(LogsOf(1)) = 1


(***************************************************************************)
(* SpecAssign: the issue assignee service, one call at a time.  A user row *)
(* is identified by its Discord ID; an assignee row's ID is the number of  *)
(* the uuid.New() call that made it.                                       *)
(***************************************************************************)
AssigneeRoleDev == "dev"
AssigneeRoleQA == "qa"
AssigneeRoleReviewer == "reviewer"
AssigneeRoleOther == "other"
AssigneeRoles ==
    {AssigneeRoleDev, AssigneeRoleQA, AssigneeRoleReviewer, AssigneeRoleOther}
RoleInputs == {AssigneeRoleDev, AssigneeRoleQA, "owner"}
UserInputs == {"u1", "u2"}

IsValid(r) == r \in AssigneeRoles

NoAssignee == [ID |-> 0, IssueID |-> 0, UserID |-> "", Role |-> "", AssignedAt |-> NoTime]

NewIssueAssignee(id, issueID, userID, role, now) ==
    [ID |-> id, IssueID |-> issueID, UserID |-> userID, Role |-> role,
     AssignedAt |-> now]

\* the rows a query returns are in assigned_at ascending order, the store's own
GetByIssueID(store, issueID) ==
    LET Test(a) == a.IssueID = issueID IN SelectSeq(store, Test)

GetByIssueAndUser(store, issueID, userID) ==
    LET Test(a) == a.IssueID = issueID /\ a.UserID = userID IN SelectSeq(store, Test)

GetByIssueAndRole(store, issueID, role) ==
    LET Test(a) == a.IssueID = issueID /\ a.Role = role IN SelectSeq(store, Test)

\* part_002 lines 68-78: the first existing assignment with this role
ExistingWithRoleNone(existing, role) == NoAssignee

ExistingWithRole(existing, role) ==
    LET hits == {k \in DOMAIN existing : existing[k].Role = role}
    IN  IF hits = {} THEN NoAssignee
        ELSE existing[CHOOSE k \in hits : \A m \in hits : k <= m]

AssignFaultKinds == {"none", "user", "lookup", "create"}

AssignUserToIssueAnyUser(store, table, issueID, discordID, role, fault, id, now) ==
    IF ~IsValid(role)
    THEN [err |-> "invalid assignee role", ret |-> 0, assignees |-> store,
          made |-> FALSE]
    ELSE [err |-> "nil", ret |-> id, made |-> TRUE,
          assignees |-> Append(store,
                            NewIssueAssignee(id, issueID, discordID, role, now))]

\* the error, the ID of the record returned (0 for nil), the store afterwards
\* and whether NewIssueAssignee drew a fresh ID
AssignUserToIssue(store, table, issueID, discordID, role, fault, id, now) ==
    LET existing == GetByIssueAndUser(store, issueID, discordID)
        found == ExistingWithRole(existing, role)
        fail(e) == [err |-> e, ret |-> 0, assignees |-> store, made |-> FALSE]
    IN  IF ~IsValid(role) THEN fail("invalid assignee role")
        ELSE IF fault = "user" THEN fail("failed to get user")
        ELSE IF discordID \notin table THEN fail("user not found")
        ELSE IF fault = "lookup" THEN fail("failed to retrieve assignments")
        ELSE IF found # NoAssignee
             THEN [err |-> "nil", ret |-> found.ID, assignees |-> store,
                   made |-> FALSE]
        ELSE IF fault = "create"
             THEN [fail("failed to create issue assignee") EXCEPT !.made = TRUE]
        ELSE [err |-> "nil", ret |-> id, made |-> TRUE,
              assignees |-> Append(store,
                                NewIssueAssignee(id, issueID, discordID, role, now))]

\* the faults that can strike the call: those of the steps it reaches
AssignFaults(issueID, discordID, role) ==
    {f \in AssignFaultKinds :
        \/ f = "none"
        \/ f = "user" /\ IsValid(role)
        \/ f = "lookup" /\ IsValid(role) /\ discordID \in users
        \/ /\ f = "create" /\ IsValid(role) /\ discordID \in users
           /\ ExistingWithRole(GetByIssueAndUser(assignees, issueID, discordID),
                               role) = NoAssignee}

ACall(op, issueID, user, role, fault, err, ret) ==
    /\ prevA' = IF lastA.op = "AssignUserToIssue" /\ lastA.err = "nil"
                THEN [lastA EXCEPT !.pre = << >>, !.preUsers = {}] ELSE NoACall
    /\ lastA' = [op |-> op, issue |-> issueID, user |-> user, role |-> role,
                 fault |-> fault, err |-> err, ret |-> ret, count |-> 0,
                 failing |-> {}, pre |-> assignees, preUsers |-> users]
    /\ clock' = clock + 1

\* the same for UnassignAllUsersFromIssue: count is the "count" of its last log
\* line, failing the IDs whose Delete failed
ACallAll(issueID, fault, err, count, failing) ==
    /\ prevA' = IF lastA.op = "AssignUserToIssue" /\ lastA.err = "nil"
                THEN [lastA EXCEPT !.pre = << >>, !.preUsers = {}] ELSE NoACall
    /\ lastA' = [NoACall EXCEPT !.op = "UnassignAllUsersFromIssue",
                    !.issue = issueID, !.fault = fault, !.err = err,
                    !.count = count, !.failing = failing, !.pre = assignees,
                    !.preUsers = users]
    /\ clock' = clock + 1

DoAssignUserToIssue ==
    \E issueID \in IssueIds, discordID \in UserInputs, role \in RoleInputs :
      \E fault \in AssignFaults(issueID, discordID, role) :
        /\ clock < MaxClock
        /\ LET r == AssignUserToIssue(assignees, users, issueID, discordID, role,
                                      fault, nextAssignee + 1, clock)
           IN  /\ assignees' = r.assignees
               /\ nextAssignee' = IF r.made THEN nextAssignee + 1 ELSE nextAssignee
               /\ ACall("AssignUserToIssue", issueID, discordID, role, fault,
                        r.err, r.ret)
        /\ UNCHANGED <<issues, statusLogs, users, nextIssue, applied, last>>
        /\ UNCHANGED <<varsTable, varsObj, varsConc>>


DeleteByIssueAndUserAnyRole(store, issueID, userID, role, ok) ==
    LET Keep(a) == ~(a.IssueID = issueID /\ a.UserID = userID)
        rest == SelectSeq(store, Keep)
    IN  IF Len(rest) = Len(store)
        THEN [err |-> "assignee not found", assignees |-> store]
        ELSE [err |-> "nil", assignees |-> rest]

\* issue_assignee_repository.go lines 273-307
DeleteByIssueAndUserAndRole(store, issueID, userID, role, ok) ==
    LET Keep(a) == ~(a.IssueID = issueID /\ a.UserID = userID /\ a.Role = role)
        rest == SelectSeq(store, Keep)
    IN  IF ~ok THEN [err |-> "failed to delete assignment", assignees |-> store]
        ELSE IF Len(rest) = Len(store)
             THEN [err |-> "assignee not found", assignees |-> store]
             ELSE [err |-> "nil", assignees |-> rest]

DoUnassignUserFromIssue ==
    \E issueID \in IssueIds, userID \in UserInputs, role \in RoleInputs, ok \in BOOLEAN :
        /\ clock < MaxClock
        /\ LET r == DeleteByIssueAndUserAndRole(assignees, issueID, userID, role, ok)
           IN  /\ assignees' = r.assignees
               /\ ACall("UnassignUserFromIssue", issueID, userID, role,
                        IF ok THEN "none" ELSE "delete", r.err, 0)
        /\ UNCHANGED nextAssignee
        /\ UNCHANGED <<issues, statusLogs, users, nextIssue, applied, last>>
        /\ UNCHANGED <<varsTable, varsObj, varsConc>>

\* issue_assignee_repository.go lines 225-244, for the rows whose delete fails
DeleteAllBut(store, issueID, failing) ==
    LET Keep(a) == a.IssueID # issueID \/ a.ID \in failing
    IN  SelectSeq(store, Keep)

\* part_002 lines 140-172: the error returned, the "count" the final log line
\* reports (len(assignments), the rows found) and the store afterwards
UnassignAllUsersFromIssue(store, issueID, ok, failing) ==
    LET assignments == GetByIssueID(store, issueID)
    IN  IF ~ok
        THEN [err |-> "failed to retrieve assignees", count |-> 0, assignees |-> store]
        ELSE [err |-> "nil", count |-> Len(assignments),
              assignees |-> DeleteAllBut(store, issueID, failing)]

DoUnassignAllUsersFromIssue ==
    \E issueID \in IssueIds, ok \in BOOLEAN :
      \E failing \in SUBSET {a.ID : a \in SeqToSet(GetByIssueID(assignees, issueID))} :
        /\ clock < MaxClock
        /\ ok \/ failing = {}
        /\ LET r == UnassignAllUsersFromIssue(assignees, issueID, ok, failing)
           IN  /\ assignees' = r.assignees
               /\ ACallAll(issueID,
                           IF ~ok THEN "list"
                           ELSE IF failing # {} THEN "delete" ELSE "none",
                           r.err, r.count, failing)
        /\ UNCHANGED nextAssignee
        /\ UNCHANGED <<issues, statusLogs, users, nextIssue, applied, last>>
        /\ UNCHANGED <<varsTable, varsObj, varsConc>>

\* a first message from a Discord user: issue_service.go lines 38-65
RegisterUser ==
    \E discordID \in UserInputs, ok \in BOOLEAN :
        /\ clock < MaxClock
        /\ discordID \notin users
        /\ users' = GetOrCreateUser(users, discordID, ok).users
        /\ ACall("getOrCreateUser", 0, discordID, "",
                 IF ok THEN "none" ELSE "create",
                 GetOrCreateUser(users, discordID, ok).err, 0)
        /\ UNCHANGED <<assignees, nextAssignee>>
        /\ UNCHANGED <<issues, statusLogs, nextIssue, applied, last>>
        /\ UNCHANGED <<varsTable, varsObj, varsConc>>

\* The calls start with the issues reporter u1 created and no assignment.
InitAssign ==
    /\ tq = NoQuery([from |-> Nil, to |-> ""])
    /\ hq = NoHist
    /\ InitChanStores
    /\ issues = [id \in IssueIds |-> NewIssue(id, "p1")]
    /\ applied = [id \in IssueIds |-> << >>]
    /\ statusLogs = << >>
    /\ users = {"u1"}
    /\ nextIssue = MaxIssues
    /\ clock = 1
    /\ last = NoCall
    /\ obj = ZeroIssue
    /\ objLog = NoLog
    /\ procs = [p \in Procs |-> NoProc]
    /\ writes = 0
    /\ aprocs = [p \in Procs |-> NoAProc]
    /\ assignees = << >>
    /\ nextAssignee = 0
    /\ lastA = NoACall
    /\ prevA = NoACall

NextAssign ==
    \/ DoAssignUserToIssue
    \/ DoUnassignUserFromIssue
    \/ DoUnassignAllUsersFromIssue
    \/ RegisterUser

SpecAssign == InitAssign /\ [][NextAssign]_vars

(***************************************************************************)
(* C10: when AssignUserToIssue has succeeded for an issue, a user and a    *)
(* role, and the very next call is AssignUserToIssue for the same three   *)
(* and meets no storage failure, that call succeeds too, returns the       *)
(* record with the same ID, and GetAssigneesByRole(issue, role) then holds *)
(* exactly one record for that user.                                       *)
(***************************************************************************)
GetAssigneesByRole(issueID, role) == GetByIssueAndRole(assignees, issueID, role)

AssignedTwice ==
    /\ prevA.op = "AssignUserToIssue" /\ prevA.err = "nil"
    /\ lastA.op = "AssignUserToIssue" /\ lastA.fault = "none"
    /\ lastA.issue = prevA.issue /\ lastA.user = prevA.user /\ lastA.role = prevA.role

C10_AssignTwiceSameRecord ==
    AssignedTwice =>
        /\ lastA.err = "nil"
        /\ lastA.ret = prevA.ret
        /\ LET listed == GetAssigneesByRole(lastA.issue, lastA.role)
           IN  Cardinality({k \in DOMAIN listed : listed[k].UserID = lastA.user}) = 1

C10_Witness ==
    /\ AssignedTwice
    /\ lastA.ret = prevA.ret /\ lastA.ret > 0
    /\ Len(assignees) = 1


(***************************************************************************)
(* SpecAssignConc: AssignUserToIssue calls that overlap.  The service      *)
(* holds no lock and issue_assignees has no unique index (issue_assignee.go*)
(* lines 20-30), so a call is two steps: AConcLookup (part_002 lines       *)
(* 35-78: validate the role, find the user, look for the assignment) and   *)
(* AConcCreate (lines 80-101: NewIssueAssignee and Create).                *)
(***************************************************************************)
AConcLookup(p) ==
    \E issueID \in IssueIds, discordID \in UserInputs, role \in RoleInputs :
      \E fault \in AssignFaults(issueID, discordID, role) \ {"create"} :
        /\ aprocs[p].pc = "idle"
        /\ LET found == ExistingWithRole(
                            GetByIssueAndUser(assignees, issueID, discordID), role)
               call == [NoAProc EXCEPT !.issue = issueID, !.user = discordID,
                                       !.role = role, !.lookedAt = nextAssignee]
               done(e, id) == [call EXCEPT !.pc = "done", !.err = e, !.ret = id]
           IN  aprocs' = [aprocs EXCEPT ![p] =
                   IF ~IsValid(role) THEN done("invalid assignee role", 0)
                   ELSE IF fault = "user" THEN done("failed to get user", 0)
                   ELSE IF discordID \notin users THEN done("user not found", 0)
                   ELSE IF fault = "lookup"
                        THEN done("failed to retrieve assignments", 0)
                   ELSE IF found # NoAssignee THEN done("nil", found.ID)
                   ELSE [call EXCEPT !.pc = "creating"]]
        /\ UNCHANGED <<procs, writes>>
        /\ UNCHANGED <<varsTable, varsSvc, varsObj, varsAssign>>

AConcCreate(p) ==
    \E ok \in BOOLEAN :
        /\ aprocs[p].pc = "creating"
        /\ nextAssignee' = nextAssignee + 1
        /\ assignees' = IF ok
                        THEN Append(assignees,
                                 NewIssueAssignee(nextAssignee + 1, aprocs[p].issue,
                                     aprocs[p].user, aprocs[p].role, clock))
                        ELSE assignees
        /\ aprocs' = [aprocs EXCEPT
                         ![p].pc = "done",
                         ![p].err = IF ok THEN "nil"
                                    ELSE "failed to create issue assignee",
                         ![p].ret = IF ok THEN nextAssignee + 1 ELSE 0]
        /\ clock' = clock + 1
        /\ UNCHANGED <<procs, writes, lastA, prevA>>
        /\ UNCHANGED <<issues, statusLogs, users, nextIssue, applied, last>>
        /\ UNCHANGED <<varsTable, varsObj>>

NextAssignConc == \E p \in Procs : AConcLookup(p) \/ AConcCreate(p)

SpecAssignConc == InitAssign /\ [][NextAssignConc]_vars

(***************************************************************************)
(* C11: in every reachable state, overlapping AssignUserToIssue calls      *)
(* included, the assignee store holds at most one record for an issue, a   *)
(* user and a role.                                                        *)
(***************************************************************************)
C11_TripleUnique ==
    \A m, n \in DOMAIN assignees :
        (/\ assignees[m].IssueID = assignees[n].IssueID
         /\ assignees[m].UserID = assignees[n].UserID
         /\ assignees[m].Role = assignees[n].Role) => m = n


(***************************************************************************)
(* C12: UnassignAllUsersFromIssue, when the issue's assignees can be       *)
(* listed and the delete of any subset of them fails, returns no error,    *)
(* reports as its count the number of records it removed, and leaves of    *)
(* the issue's records exactly those whose delete failed (records of other *)
(* issues stay).                                                           *)
(***************************************************************************)
KeptByUnassignAll ==
    LET Keep(a) == a.IssueID # lastA.issue \/ a.ID \in lastA.failing
    IN  SelectSeq(lastA.pre, Keep)

C12_UnassignAllCountsRemoved ==
    (lastA.op = "UnassignAllUsersFromIssue" /\ lastA.fault # "list")
        => /\ lastA.err = "nil"
           /\ assignees = KeptByUnassignAll
           /\ lastA.count = Len(lastA.pre) - Len(assignees)


(***************************************************************************)
(* C13: AssignUserToIssue and UnassignUserFromIssue, given a role outside  *)
(* dev, qa, reviewer and other, fail with the invalid-role error whatever  *)
(* the storage would have answered (it is not asked), and the user and     *)
(* assignee stores are as before the call.                                 *)
(***************************************************************************)
RoleOps == {"AssignUserToIssue", "UnassignUserFromIssue"}

C13_InvalidRoleRejectedFirst ==
    (lastA.op \in RoleOps /\ ~IsValid(lastA.role))
        => /\ lastA.err = "invalid assignee role"
           /\ assignees = lastA.pre
           /\ users = lastA.preUsers


(***************************************************************************)
(* C14: UnassignUserFromIssue(issue, user, role), when the storage does    *)
(* not fail: if no record has exactly that issue, user and role it fails   *)
(* with the assignee-not-found error and the store is as before; otherwise *)
(* it succeeds, no record of that issue, user and role remains and every   *)
(* other record (other roles, other users, other issues) is still there.   *)
(***************************************************************************)
IsUnassigned(a) ==
    a.IssueID = lastA.issue /\ a.UserID = lastA.user /\ a.Role = lastA.role

C14_UnassignRemovesOnlyTheTriple ==
    (lastA.op = "UnassignUserFromIssue" /\ lastA.fault = "none")
        => LET before == SeqToSet(lastA.pre)
               after == SeqToSet(assignees)
           IN  IF \E a \in before : IsUnassigned(a)
               THEN /\ lastA.err = "nil"
                    /\ after = {a \in before : ~IsUnassigned(a)}
               ELSE /\ lastA.err = "assignee not found"
                    /\ assignees = lastA.pre

C14_Witness ==
    /\ lastA.op = "UnassignUserFromIssue"
    /\ lastA.err = "nil"
    /\ Len(lastA.pre) = 2
    /\ Len(assignees) = 1
    /\ assignees[1].UserID = lastA.user
    /\ assignees[1].IssueID = lastA.issue
    /\ assignees[1].Role # lastA.role


(***************************************************************************)
(* C15: AssignUserToIssue with a valid role for a Discord ID that has no   *)
(* user row, when the user lookup itself does not fail, fails with the     *)
(* user-not-found error, stores no assignment and creates no user.         *)
(***************************************************************************)
AssignedUnknownUser ==
    /\ lastA.op = "AssignUserToIssue"
    /\ IsValid(lastA.role)
    /\ lastA.user \notin lastA.preUsers
    /\ lastA.fault = "none"

C15_UnknownUserRejected ==
    AssignedUnknownUser
        => /\ lastA.err = "user not found"
           /\ lastA.ret = 0
           /\ assignees = lastA.pre
           /\ users = lastA.preUsers

C15_Witness ==
    /\ AssignedUnknownUser
    /\ lastA.user = "u2"
    /\ lastA.err = "user not found"
    /\ Len(assignees) = 1


(***************************************************************************)
(* C16: UpdateIssuePriority with a priority other than low, medium or high *)
(* fails with the invalid-priority failure and leaves the issues table as  *)
(* it was; with one of the three, on a stored issue and with no storage    *)
(* failure, it succeeds and the stored issue differs from before only in   *)
(* its priority, which is the requested one.                               *)
(***************************************************************************)
C16_PriorityValidated ==
    last.op = "UpdateIssuePriority"
        => IF last.priority \notin {PriorityLow, PriorityMedium, PriorityHigh}
           THEN /\ last.err = "invalid priority"
                /\ issues = last.preIssues
           ELSE (last.pre.exists /\ last.fault = "none")
                   => /\ last.err = "nil"
                      /\ issues = [last.preIssues EXCEPT
                                      ![last.id].Priority = last.priority]

C16_Witness ==
    /\ last.op = "UpdateIssuePriority"
    /\ last.priority = "urgent"
    /\ last.err = "invalid priority"
    /\ last.pre.exists
    /\ issues[last.id].Priority = PriorityHigh


(***************************************************************************)
(* C17: after CreateIssue or CreateWebIssue, either the call succeeded and *)
(* exactly one issue was added, with status open and no closed_at, or it   *)
(* failed and the issues table is as before; a request with an empty       *)
(* required field, or from a channel that is not registered, fails.        *)
(***************************************************************************)
CreateOps == {"CreateIssue", "CreateWebIssue"}

CreateRejected ==
    \/ last.in.title = "" \/ last.in.description = "" \/ last.in.reporterID = ""
    \/ last.in.channelID = "" \/ last.in.projectID = ""
    \/ last.op = "CreateIssue" /\ last.in.channelID \notin DOMAIN RegisteredChannels

C17_CreatedOpen ==
    last.op \in CreateOps
        => /\ CreateRejected => last.err # "nil"
           /\ last.err # "nil" => issues = last.preIssues
           /\ last.err = "nil" =>
                 \E id \in IssueIds :
                    /\ ~last.preIssues[id].exists
                    /\ issues[id].exists
                    /\ issues[id].Status = StatusOpen
                    /\ issues[id].ClosedAt = NoTime
                    /\ \A other \in IssueIds \ {id} :
                          issues[other] = last.preIssues[other]

C17_Witness ==
    /\ last.op = "CreateWebIssue"
    /\ last.err = "nil"
    /\ issues[1].Status = StatusClosed
    /\ issues[2].Status = StatusOpen
    /\ issues[2].ClosedAt = NoTime


C19_ProjectIDNeverChanges ==
    [][\A id \in IssueIds :
          issues[id].exists =>
              /\ issues'[id].exists
              /\ issues'[id].ProjectID = issues[id].ProjectID]_vars

C19_Witness ==
    /\ last.op \in {"UpdateIssueThreadInfo", "SetThreadInfo"}
    /\ last.err = "nil"
    /\ issues[last.id].ThreadID = "t1"
    /\ issues[last.id].Priority = PriorityHigh
    /\ issues[last.id].ProjectID = "p2"


(***************************************************************************)
(* C20: CloseIssue on a stored issue whose status is already closed, with  *)
(* no storage failure, returns the issue-already-closed error and leaves   *)
(* the stored issue, its closed_at included, as it was.                    *)
(***************************************************************************)
C20_CloseClosedRejected ==
    (/\ last.op = "CloseIssue"
     /\ last.fault = "none"
     /\ last.pre.exists
     /\ last.pre.Status = StatusClosed)
        => /\ last.err = "issue is already closed"
           /\ issues[last.id] = last.pre


(***************************************************************************)
(* C21: the partial-ID search returns exactly the stored issues whose      *)
(* canonical ID string starts with the given prefix: all of them and no    *)
(* other.  (SearchIssuesByID takes no scope: every stored issue is in it.) *)
(***************************************************************************)
C21_SearchFindsPrefixMatches ==
    last.op = "SearchIssuesByID"
        => last.found = {id \in IssueIds :
                            /\ issues[id].exists
                            /\ HasPrefix(IDString(id), last.partialID)}


(***************************************************************************)
(* C22: along the path open, assigned_dev, in_progress, resolved,          *)
(* assigned_qa, verified, closed, each step requested of an issue that     *)
(* stands at the step before (no storage failure) succeeds, moves the      *)
(* stored status to the requested one, sets closed_at on reaching closed,  *)
(* and adds one status-log entry whose new_status is the requested status: *)
(* the six steps from a new issue leave six entries in that order.         *)
(***************************************************************************)
ScenarioPath ==
    <<StatusOpen, StatusAssignedDev, StatusInProgress, StatusResolved,
      StatusAssignedQA, StatusVerified, StatusClosed>>

C22_ScenarioStepsSucceed ==
    \A k \in 1..(Len(ScenarioPath) - 1) :
        (/\ last.op \in StatusOps
         /\ last.fault = "none"
         /\ last.pre.exists
         /\ last.pre.Status = ScenarioPath[k]
         /\ last.status = ScenarioPath[k + 1])
            => /\ last.err = "nil"
               /\ issues[last.id].Status = ScenarioPath[k + 1]
               /\ (ScenarioPath[k + 1] = StatusClosed)
                     => issues[last.id].ClosedAt # NoTime
               /\ Len(statusLogs) = Len(last.preLogs) + 1
               /\ Len(LogsOf(last.id)) = k
               /\ LogsOf(last.id)[k].NewStatus = ScenarioPath[k + 1]


(***************************************************************************)
(* SpecLogs: the readers of an Issue's StatusLogs (part_004 lines 316-346) *)
(* on every list of up to MaxLogs entries with times in 1..MaxTime, equal  *)
(* times included. An entry is kept as its ID and its ChangedAt.           *)
(***************************************************************************)
MaxLogs == 3
MaxTime == 3

LogSeqs ==
    UNION {{[k \in 1..n |-> [ID |-> k, ChangedAt |-> f[k]]] : f \in [1..n -> 1..MaxTime]}
              : n \in 0..MaxLogs}

\* logs[i], logs[j] = logs[j], logs[i]
Swap(logs, i, j) == [logs EXCEPT ![i] = logs[j], ![j] = logs[i]]

\* for j := i + 1; j < len(logs); j++ (positions here count from 1)
RECURSIVE SortInner(_, _, _)
SortInner(logs, i, j) ==
    IF j > Len(logs)
    THEN logs
    ELSE IF logs[i].ChangedAt < logs[j].ChangedAt
         THEN SortInner(Swap(logs, i, j), i, j + 1)
         ELSE SortInner(logs, i, j + 1)

\* for i := 0; i < len(logs)-1; i++
RECURSIVE SortOuter(_, _)
SortOuter(logs, i) ==
    IF i >= Len(logs)
    THEN logs
    ELSE SortOuter(SortInner(logs, i, i + 1), i + 1)

GetStatusHistoryInPlace(StatusLogs) ==
    [StatusLogs |-> SortOuter(StatusLogs, 1), logs |-> SortOuter(StatusLogs, 1)]

\* The receiver's StatusLogs after the call, and the slice returned: the
\* sort works on a copy.
GetStatusHistory(StatusLogs) ==
    [StatusLogs |-> StatusLogs, logs |-> SortOuter(StatusLogs, 1)]

\* for _, log := range i.StatusLogs, from position k on. latest is the value
\* the pointer latest reads; aliased says it holds &log. With one loop
\* variable for the whole loop (go directive below 1.22) a pointer to log
\* reads the entry of the current iteration; with one variable per iteration
\* it keeps the entry it was taken at.
RECURSIVE LatestLoop(_, _, _, _, _)
LatestLoop(StatusLogs, k, latest, aliased, perIteration) ==
    IF k > Len(StatusLogs)
    THEN latest
    ELSE LET log == StatusLogs[k]
             cur == IF aliased /\ ~perIteration THEN log ELSE latest
         IN  IF log.ChangedAt > cur.ChangedAt
             THEN LatestLoop(StatusLogs, k + 1, log, TRUE, perIteration)
             ELSE LatestLoop(StatusLogs, k + 1, cur, aliased, perIteration)

\* << >> is nil, <<e>> a pointer to an entry that reads e
GetLatestStatusLog(StatusLogs, perIteration) ==
    IF Len(StatusLogs) = 0
    THEN << >>
    ELSE <<LatestLoop(StatusLogs, 1, StatusLogs[1], FALSE, perIteration)>>

CallGetStatusHistory ==
    /\ hq.op = "none"
    /\ LET r == GetStatusHistory(hq.StatusLogs)
       IN  hq' = [hq EXCEPT !.op = "GetStatusHistory",
                            !.StatusLogs = r.StatusLogs,
                            !.history = r.logs]
    /\ UNCHANGED <<tq, varsChan, varsSvc, varsObj, varsConc, varsAssign>>

\* The module file that fixes the loop-variable semantics is not part of the
\* sources, so either may be built.
CallGetLatestStatusLog ==
    /\ hq.op = "none"
    /\ \E perIteration \in BOOLEAN :
          hq' = [hq EXCEPT !.op = "GetLatestStatusLog",
                           !.latest = GetLatestStatusLog(hq.StatusLogs, perIteration)]
    /\ UNCHANGED <<tq, varsChan, varsSvc, varsObj, varsConc, varsAssign>>

InitLogs ==
    /\ tq = NoQuery([from |-> Nil, to |-> ""])
    /\ hq \in {[NoHist EXCEPT !.given = g, !.StatusLogs = g] : g \in LogSeqs}
    /\ InitChanStores
    /\ InitStores

NextLogs ==
    \/ CallGetStatusHistory
    \/ CallGetLatestStatusLog

SpecLogs == InitLogs /\ [][NextLogs]_vars

(***************************************************************************)
(* C23: GetStatusHistory returns exactly the entries of the issue's status *)
(* log (each entry as many times as it is there), ordered newest first     *)
(* (ChangedAt never increases along the result), and leaves the issue's    *)
(* own StatusLogs as they were.                                            *)
(***************************************************************************)
C23_HistoryNewestFirst ==
    hq.op = "GetStatusHistory" =>
        /\ Len(hq.history) = Len(hq.given)
        /\ \A e \in SeqToSet(hq.given) \cup SeqToSet(hq.history) :
              Cardinality({k \in 1..Len(hq.history) : hq.history[k] = e})
                  = Cardinality({k \in 1..Len(hq.given) : hq.given[k] = e})
        /\ \A k \in 1..(Len(hq.history) - 1) :
              hq.history[k].ChangedAt >= hq.history[k + 1].ChangedAt
        /\ hq.StatusLogs = hq.given

C23_Witness ==
    /\ hq.op = "GetStatusHistory"
    /\ Len(hq.given) = 3
    /\ hq.given[1].ChangedAt = 1
    /\ hq.given[2].ChangedAt = 3
    /\ hq.given[3].ChangedAt = 2
    /\ hq.history = <<hq.given[2], hq.given[3], hq.given[1]>>
    /\ hq.StatusLogs = hq.given

C24_OldStatusIsStatusBefore ==
    [][/\ objLog' # objLog =>
            /\ objLog'.NewStatus = obj'.Status
            /\ Deref(objLog', obj') = IF obj.Status = "" THEN Nil ELSE obj.Status
       /\ (objLog' = objLog /\ objLog.exists) =>
            Deref(objLog', obj') = Deref(objLog, obj)]_vars


(***************************************************************************)
(* C25: when an UpdateIssuePriority call and a status change on the same   *)
(* issue overlap in any order, both succeed and nothing else writes the    *)
(* issue, the stored issue has the new priority and the new status with    *)
(* closed_at set exactly when that status is closed: neither update is     *)
(* lost, and the priority update leaves status and closed_at alone.        *)
(***************************************************************************)
C25_PriorityKeepsStatus ==
    \A p, q \in Procs :
        (/\ procs[p].op = "UpdateIssuePriority"
         /\ procs[q].op = "UpdateIssueStatus"
         /\ procs[p].pc = "done" /\ procs[p].err = "nil"
         /\ procs[q].pc = "done" /\ procs[q].err = "nil"
         /\ procs[p].id = procs[q].id
         /\ \A r \in Procs \ {p, q} : procs[r].pc = "idle")
            => /\ issues[procs[p].id].Priority = procs[p].priority
               /\ issues[procs[p].id].Status = procs[q].status
               /\ (issues[procs[p].id].ClosedAt # NoTime)
                      <=> (procs[q].status = StatusClosed)


(***************************************************************************)
(* C26: for the 9-status definitions and every non-nil from (one of the 9  *)
(* statuses or any other string) and every to, IsStatusTransitionValid     *)
(* (from, to) is true exactly when to is among                             *)
(* GetNextPossibleStatuses(from).                                          *)
(***************************************************************************)
C26_ValidatorAgreesWithSuccessors ==
    /\ (tq.op = "IsStatusTransitionValid" /\ tq.from # Nil)
          => (tq.valid <=> tq.to \in SeqToSet(GetNextPossibleStatuses(tq.from)))
    /\ (tq.op = "GetNextPossibleStatuses" /\ tq.from # Nil)
          => \A to \in StatusInputs :
                 (to \in SeqToSet(tq.next)) <=> IsStatusTransitionValid(tq.from, to)

C26_Witness ==
    /\ tq.op = "IsStatusTransitionValid"
    /\ tq.from = StatusVerified
    /\ tq.to = StatusRejected
    /\ tq.valid
    /\ tq.to \in SeqToSet(GetNextPossibleStatuses(tq.from))

(***************************************************************************)
(* C28: the graph of the 9 statuses is strongly connected: from every      *)
(* status every status is reached by one or more transitions, whether a    *)
(* transition is one IsStatusTransitionValid accepts or one                *)
(* GetNextPossibleStatuses lists. So no status is a dead end, closed is    *)
(* reached from every status and every status is reached from open.        *)
(***************************************************************************)
AcceptedFrom(S) == {t \in Statuses : \E f \in S : IsStatusTransitionValid(f, t)}

ListedFrom(S) == UNION {SeqToSet(GetNextPossibleStatuses(f)) : f \in S}

RECURSIVE AcceptedClosure(_)
AcceptedClosure(S) ==
    IF AcceptedFrom(S) \subseteq S THEN S ELSE AcceptedClosure(S \cup AcceptedFrom(S))

RECURSIVE ListedClosure(_)
ListedClosure(S) ==
    IF ListedFrom(S) \subseteq S THEN S ELSE ListedClosure(S \cup ListedFrom(S))

C28_StronglyConnected ==
    (tq.op # "none" /\ tq.from \in Statuses /\ tq.to \in Statuses)
        => /\ tq.to \in AcceptedClosure(AcceptedFrom({tq.from}))
           /\ tq.to \in ListedClosure(ListedFrom({tq.from}))
           /\ StatusClosed \in ListedClosure(ListedFrom({tq.from}))
           /\ tq.to \in ListedClosure(ListedFrom({StatusOpen}))

C28_Witness ==
    /\ tq.op = "IsStatusTransitionValid"
    /\ tq.from = StatusClosed
    /\ tq.to = StatusVerified
    /\ ~tq.valid
    /\ tq.to \in AcceptedClosure(AcceptedFrom({tq.from}))


(***************************************************************************)
(* C27: for the reduced definitions, every status for which                *)
(* createActionButtons puts a button on the card of an issue is a          *)
(* transition the reduced IsStatusTransitionValid accepts from the         *)
(* issue's status.                                                         *)
(***************************************************************************)
C27_OfferedButtonsAreValid ==
    tq.op = "createActionButtons"
        => \A k \in 1..Len(tq.next) : IsStatusTransitionValidReduced(tq.from, tq.next[k])


(***************************************************************************)
(* SpecChan: channelService.RegisterChannel (channel_service.go lines      *)
(* 39-224). fault names the one repository call of the run that fails for  *)
(* a reason other than "not found".                                        *)
(***************************************************************************)
RegFaults == {"none", "customer get", "customer create", "project get",
              "project create", "user get", "user create", "channel get",
              "channel create"}

getOrCreateCustomer(table, name, fault) ==
    IF fault = "customer get"
    THEN [err |-> "failed to check existing customer", customers |-> table]
    ELSE IF name \in table
    THEN [err |-> "nil", customers |-> table]
    ELSE IF fault = "customer create"
    THEN [err |-> "failed to create customer", customers |-> table]
    ELSE [err |-> "nil", customers |-> table \cup {name}]

getOrCreateProject(table, customerID, name, fault) ==
    IF fault = "project get"
    THEN [err |-> "failed to check existing project", projects |-> table]
    ELSE IF <<customerID, name>> \in table
    THEN [err |-> "nil", projects |-> table]
    ELSE IF fault = "project create"
    THEN [err |-> "failed to create project", projects |-> table]
    ELSE [err |-> "nil", projects |-> table \cup {<<customerID, name>>}]

getOrCreateUser(table, discordID, fault) ==
    IF fault = "user get"
    THEN [err |-> "failed to check existing user", users |-> table]
    ELSE IF discordID \in table
    THEN [err |-> "nil", users |-> table]
    ELSE IF fault = "user create"
    THEN [err |-> "failed to create user", users |-> table]
    ELSE [err |-> "nil", users |-> table \cup {discordID}]

\* The error returned and the four tables afterwards. st holds the tables
\* before the call.
RegisterChannel(st, channelID, customerName, projectName, registeredBy, guildID, fault) ==
    IF channelID = "" \/ customerName = "" \/ projectName = ""
          \/ registeredBy = "" \/ guildID = ""
    THEN [err |-> "invalid channel registration", st |-> st]
    ELSE
    LET c  == getOrCreateCustomer(st.customers, customerName, fault)
        s1 == [st EXCEPT !.customers = c.customers]
        pr == getOrCreateProject(s1.projects, customerName, projectName, fault)
        s2 == [s1 EXCEPT !.projects = pr.projects]
        u  == getOrCreateUser(s2.users, registeredBy, fault)
        s3 == [s2 EXCEPT !.users = u.users]
    IN  IF c.err # "nil"
        THEN [err |-> "failed to get or create customer", st |-> s1]
        ELSE IF pr.err # "nil"
        THEN [err |-> "failed to get or create project", st |-> s2]
        ELSE IF u.err # "nil"
        THEN [err |-> "failed to get or create user", st |-> s3]
        ELSE IF fault = "channel get"
        THEN [err |-> "failed to check existing channel registration", st |-> s3]
        ELSE IF \E ch \in s3.channels : ch.DiscordChannelID = channelID
        THEN [err |-> "channel already registered", st |-> s3]
        ELSE IF fault = "channel create"
        THEN [err |-> "failed to create channel registration", st |-> s3]
        ELSE [err |-> "nil",
              st |-> [s3 EXCEPT !.channels = s3.channels \cup
                        {[DiscordChannelID |-> channelID,
                          ProjectID |-> <<customerName, projectName>>,
                          GuildID |-> guildID,
                          RegisteredBy |-> registeredBy]}]]

ChannelInputs == {"", "c1", "c2"}
CustomerInputs == {"k1", "k2"}

ChanStores == [customers |-> customers, projects |-> projects, users |-> users,
               channels |-> channels]

DoRegisterChannel ==
    \E channelID \in ChannelInputs, customerName \in CustomerInputs,
       registeredBy \in UserInputs, fault \in RegFaults :
        LET r    == RegisterChannel(ChanStores, channelID, customerName, "p1",
                                    registeredBy, "g1", fault)
            calm == RegisterChannel(ChanStores, channelID, customerName, "p1",
                                    registeredBy, "g1", "none")
        IN  /\ clock < MaxClock
            \* a fault on a call the run does not make is no fault
            /\ fault = "none" \/ r # calm
            /\ customers' = r.st.customers
            /\ projects' = r.st.projects
            /\ users' = r.st.users
            /\ channels' = r.st.channels
            /\ lastR' = [op |-> "RegisterChannel", channelID |-> channelID,
                         customerName |-> customerName, projectName |-> "p1",
                         registeredBy |-> registeredBy, fault |-> fault,
                         err |-> r.err, pre |-> ChanStores]
            /\ clock' = clock + 1
            /\ UNCHANGED <<issues, statusLogs, nextIssue, applied, last>>
            /\ UNCHANGED <<tq, hq, varsObj, varsConc, varsAssign>>

InitChan ==
    /\ tq = NoQuery([from |-> Nil, to |-> ""])
    /\ hq = NoHist
    /\ InitChanStores
    /\ InitStores

NextChan == DoRegisterChannel

SpecChan == InitChan /\ [][NextChan]_vars

(***************************************************************************)
(* C30: a RegisterChannel call that fails because the channel is already   *)
(* registered, or because looking the channel up or creating it fails,     *)
(* leaves the customers, projects, users and channels tables as they were  *)
(* before the call.                                                        *)
(***************************************************************************)
C30_FailedRegistrationChangesNothing ==
    (/\ lastR.op = "RegisterChannel"
     /\ lastR.err \in {"channel already registered",
                       "failed to check existing channel registration",
                       "failed to create channel registration"})
        => ChanStores = lastR.pre

=============================================================================
